---- MODULE Spec2Model ----
(***************************************************************************)
(* Model of fastapi_app.py: the two request handlers of the table cropper  *)
(* API (crop-preview and split-halves), the helpers they call, and the     *)
(* process-wide _last_name attribute they share.                           *)
(*                                                                         *)
(* Strings are sequences of one-character strings, so that startswith,     *)
(* endswith, "in", replace, lower, basename and splitext are computed      *)
(* character by character as Python computes them.                         *)
(***************************************************************************)
EXTENDS Integers, Sequences, FiniteSets, TLC

\* ------------------------------------------------------------------ bounds
MaxW == 110        \* widths 1..MaxW of the images given to the preview trim
MaxH == 60         \* heights 1..MaxH of the images given to the preview trim
MaxSplitW == 2     \* widths of the pixel images given to the split
MaxSplitH == 6     \* heights of the pixel images given to the split
MaxSegs == 3       \* path segments of a URL returned by the hosting service
NReq == 2          \* concurrent requests

\* ------------------------------------------------------- string literals
HttpScheme == <<"h", "t", "t", "p", ":", "/", "/">>
HttpsScheme == <<"h", "t", "t", "p", "s", ":", "/", "/">>
DlSegment == <<"/", "d", "l", "/">>
TmpfilesOrg == <<"t", "m", "p", "f", "i", "l", "e", "s", ".", "o", "r", "g">>
TmpfilesHost == <<"t", "m", "p", "f", "i", "l", "e", "s", ".", "o", "r", "g", "/">>
TmpfilesDl == <<"t", "m", "p", "f", "i", "l", "e", "s", ".", "o", "r", "g", "/", "d", "l", "/">>
UploadedPng == <<"u", "p", "l", "o", "a", "d", "e", "d", ".", "p", "n", "g">>
Uploaded == <<"u", "p", "l", "o", "a", "d", "e", "d">>
DownloadedPng == <<"d", "o", "w", "n", "l", "o", "a", "d", "e", "d", ".", "p", "n", "g">>
PreviewSuffix == <<"_", "p", "r", "e", "v", "i", "e", "w", ".", "p", "n", "g">>
TopSuffix == <<"_", "t", "o", "p", "_", "h", "a", "l", "f", ".", "p", "n", "g">>
BottomSuffix == <<"_", "b", "o", "t", "t", "o", "m", "_", "h", "a", "l", "f", ".", "p", "n", "g">>
Slash == <<"/">>
DotPng == <<".", "p", "n", "g">>
ImageSlash == <<"i", "m", "a", "g", "e", "/">>
ExtJpeg == <<"j", "p", "e", "g">>
ExtJpg == <<"j", "p", "g">>
ExtPng == <<"p", "n", "g">>
ExtBmp == <<"b", "m", "p">>
ExtTiff == <<"t", "i", "f", "f">>

\* --------------------------------------------------- Python str operations
\* s.startswith(p)
StartsWith(s, p) == Len(p) <= Len(s) /\ SubSeq(s, 1, Len(p)) = p

\* s.endswith(p)
EndsWith(s, p) == Len(p) <= Len(s) /\ SubSeq(s, Len(s) - Len(p) + 1, Len(s)) = p

\* p in s
Contains(s, p) == \E i \in 1..(Len(s) - Len(p) + 1) : SubSeq(s, i, i + Len(p) - 1) = p

\* s.replace(old, new): every non-overlapping occurrence, left to right
RECURSIVE Replace(_, _, _)
Replace(s, old, new) ==
    IF s = <<>> THEN <<>>
    ELSE IF StartsWith(s, old)
         THEN new \o Replace(SubSeq(s, Len(old) + 1, Len(s)), old, new)
         ELSE <<Head(s)>> \o Replace(Tail(s), old, new)

UpperCase == <<"A", "B", "C", "D", "E", "F", "G", "H", "I", "J", "K", "L", "M", "N", "O", "P", "Q", "R", "S", "T", "U", "V", "W", "X", "Y", "Z">>
LowerCase == <<"a", "b", "c", "d", "e", "f", "g", "h", "i", "j", "k", "l", "m", "n", "o", "p", "q", "r", "s", "t", "u", "v", "w", "x", "y", "z">>

LowerChar(c) ==
    IF \E i \in 1..Len(UpperCase) : UpperCase[i] = c
    THEN LowerCase[CHOOSE i \in 1..Len(UpperCase) : UpperCase[i] = c]
    ELSE c

\* s.lower()
Lower(s) == [i \in 1..Len(s) |-> LowerChar(s[i])]

\* s.rfind(c): 0 when absent (positions are 1-based here)
RFind(s, c) ==
    IF \E i \in 1..Len(s) : s[i] = c
    THEN CHOOSE i \in 1..Len(s) : s[i] = c /\ \A j \in (i + 1)..Len(s) : s[j] # c
    ELSE 0

\* s.split("?")[0]
BeforeQuery(s) ==
    IF \E i \in 1..Len(s) : s[i] = "?"
    THEN SubSeq(s, 1, (CHOOSE i \in 1..Len(s) : s[i] = "?" /\ \A j \in 1..(i - 1) : s[j] # "?") - 1)
    ELSE s

\* os.path.basename(p)
Basename(p) == SubSeq(p, RFind(p, "/") + 1, Len(p))

\* os.path.splitext(p)[0]: the extension starts at the last dot, unless
\* only dots stand between the last separator and that dot
SplitextRoot(p) ==
    LET sepIndex == RFind(p, "/")
        dotIndex == RFind(p, ".")
    IN  IF dotIndex > sepIndex
           /\ \E k \in (sepIndex + 1)..(dotIndex - 1) : p[k] # "."
        THEN SubSeq(p, 1, dotIndex - 1)
        ELSE p

\* ------------------------------------------- IEEE-754 double arithmetic
\* A positive double is kept as its significand, a little-endian sequence of
\* bits, and the power of two it is scaled by.  0.27 is 0x1.147ae147ae148p-2
\* and 0.12 is 0x1.eb851eb851eb8p-4.
BitsOfNibble(d) == <<d % 2, (d \div 2) % 2, (d \div 4) % 2, (d \div 8) % 2>>

RECURSIVE HexBits(_)
HexBits(h) == IF h = <<>> THEN <<>> ELSE HexBits(Tail(h)) \o BitsOfNibble(Head(h))

RECURSIVE StripHigh(_)
StripHigh(b) ==
    IF b = <<>> \/ b[Len(b)] = 1 THEN b ELSE StripHigh(SubSeq(b, 1, Len(b) - 1))

Mant027 == StripHigh(HexBits(<<1, 1, 4, 7, 10, 14, 1, 4, 7, 10, 14, 1, 4, 8>>))
Mant012 == StripHigh(HexBits(<<1, 14, 11, 8, 5, 1, 14, 11, 8, 5, 1, 14, 11, 8>>))

RECURSIVE MulCarry(_, _, _)
MulCarry(b, n, carry) ==
    IF b = <<>>
    THEN IF carry = 0 THEN <<>> ELSE <<carry % 2>> \o MulCarry(<<>>, n, carry \div 2)
    ELSE LET a == Head(b) * n + carry
         IN  <<a % 2>> \o MulCarry(Tail(b), n, a \div 2)

RECURSIVE IncBits(_)
IncBits(b) ==
    IF b = <<>> THEN <<1>>
    ELSE IF Head(b) = 0 THEN <<1>> \o Tail(b) ELSE <<0>> \o IncBits(Tail(b))

RECURSIVE BitsToInt(_)
BitsToInt(b) == IF b = <<>> THEN 0 ELSE Head(b) + 2 * BitsToInt(Tail(b))

\* round to nearest, ties to even, at the precision of a double
RoundDouble(b, precision) ==
    IF Len(b) <= precision THEN b
    ELSE LET k == Len(b) - precision
             guard == b[k]
             sticky == \E i \in 1..(k - 1) : b[i] = 1
             kept == SubSeq(b, k + 1, Len(b))
             up == guard = 1 /\ (sticky \/ kept[1] = 1)
         IN  [i \in 1..k |-> 0] \o (IF up THEN IncBits(kept) ELSE kept)

\* int(c * n) for the double c = mant * 2^-scale and the integer n >= 0
FloatMulTrunc(mant, scale, n) ==
    LET product == RoundDouble(StripHigh(MulCarry(mant, n, 0)), Len(mant))
    IN  BitsToInt(SubSeq(product, scale + 1, Len(product)))

Max(a, b) == IF a >= b THEN a ELSE b

\* ------------------------------------------------------ upload_to_tmpfiles
\* the normalisation without the insertion of /dl/
NormalizeUploadUrlNoInsert(file_url) ==
    IF StartsWith(file_url, HttpScheme) THEN Replace(file_url, HttpScheme, HttpsScheme)
    ELSE file_url

\* the normalisation of a non-empty file_url (lines 83-87)
NormalizeUploadUrl(file_url) ==
    LET upgraded == IF StartsWith(file_url, HttpScheme)
                    THEN Replace(file_url, HttpScheme, HttpsScheme)
                    ELSE file_url
    IN  IF ~Contains(upgraded, DlSegment)
        THEN Replace(upgraded, TmpfilesHost, TmpfilesDl)
        ELSE upgraded

\* -------------------------------------------------------- the preview trim
\* the box with the left trim taken off the right edge as well
TrimWindowRightTrim(width, height) ==
    LET left_trim == FloatMulTrunc(Mant027, 54, width)
        bottom_trim == FloatMulTrunc(Mant012, 56, height)
    IN  <<left_trim, 0, Max(left_trim + 1, width - left_trim), Max(1, height - bottom_trim)>>

\* lines 116-121: the box handed to out_img.crop
TrimWindow(width, height) ==
    LET left_trim == FloatMulTrunc(Mant027, 54, width)
        bottom_trim == FloatMulTrunc(Mant012, 56, height)
        new_right == Max(left_trim + 1, width)
        new_bottom == Max(1, height - bottom_trim)
    IN  <<left_trim, 0, new_right, new_bottom>>

\* ------------------------------------------------------------ PIL images
\* An image is its mode, its size and its rows of pixels; a pixel is the
\* tuple of its band values.
Black(mode) ==
    IF mode = "L" THEN <<0>> ELSE IF mode = "RGBA" THEN <<0, 0, 0, 0>> ELSE <<0, 0, 0>>

\* Image.crop(box): the pixels of the box, black outside the image
Crop(img, box) ==
    LET l == box[1]
        t == box[2]
        w == box[3] - box[1]
        h == box[4] - box[2]
    IN  [mode |-> img.mode, w |-> w, h |-> h,
         px |-> [y \in 1..h |-> [x \in 1..w |->
                    IF y + t \in 1..img.h /\ x + l \in 1..img.w
                    THEN img.px[y + t][x + l]
                    ELSE Black(img.mode)]]]

\* Image.convert("RGB")
ConvertRGB(img) ==
    [mode |-> "RGB", w |-> img.w, h |-> img.h,
     px |-> [y \in 1..img.h |-> [x \in 1..img.w |->
                LET p == img.px[y][x]
                IN  IF img.mode = "L" THEN <<p[1], p[1], p[1]>> ELSE <<p[1], p[2], p[3]>>]]]

\* _pil_to_png_bytes: the PNG holds the image, converted unless RGB or RGBA
PilToPngBytes(pil_img) ==
    LET save_img == IF pil_img.mode \notin {"RGB", "RGBA"} THEN ConvertRGB(pil_img) ELSE pil_img
    IN  [fmt |-> "PNG", img |-> save_img]

\* the split with mid rounded up
BisectCeil(pil_img) ==
    LET mid == (pil_img.h + 1) \div 2
    IN  <<Crop(pil_img, <<0, 0, pil_img.w, mid>>), Crop(pil_img, <<0, mid, pil_img.w, pil_img.h>>)>>

\* lines 180-184: mid and the two crops of the split
Bisect(pil_img) ==
    LET width == pil_img.w
        height == pil_img.h
        mid == height \div 2
        top_half == Crop(pil_img, <<0, 0, width, mid>>)
        bottom_half == Crop(pil_img, <<0, mid, width, height>>)
    IN  <<top_half, bottom_half>>

\* ------------------------------------------- _validate_image_content_type
\* the check without the lower-casing
ValidateSuffixCaseSensitive(content_type) ==
    \E ext \in {ExtJpeg, ExtJpg, ExtPng, ExtBmp, ExtTiff} : EndsWith(content_type, ext)

\* TRUE when no HTTPException is raised; a missing content type is ""
ValidateImageContentType(content_type) ==
    \E ext \in {ExtJpeg, ExtJpg, ExtPng, ExtBmp, ExtTiff} : EndsWith(Lower(content_type), ext)

\* ------------------------------------------------- the rest of the helpers
\* lines 158-161 of split_image_halves: the URL that is fetched
NormalizeFetchUrl(image_url) ==
    LET upgraded == IF StartsWith(image_url, HttpScheme)
                    THEN Replace(image_url, HttpScheme, HttpsScheme)
                    ELSE image_url
    IN  IF Contains(upgraded, TmpfilesOrg) /\ ~Contains(upgraded, DlSegment)
        THEN Replace(upgraded, TmpfilesHost, TmpfilesDl)
        ELSE upgraded

\* lines 168-170: the name derived from the fetched URL
NameFromUrl(url) ==
    LET stem == IF BeforeQuery(url) # <<>> THEN BeforeQuery(url) ELSE DownloadedPng
        original_name == Basename(stem)
    IN  IF original_name = <<>> THEN DownloadedPng ELSE original_name

\* a or b, for strings
OrElse(a, b) == IF a # <<>> THEN a ELSE b

\* lines 191-193
TopNameOf(original_name) == SplitextRoot(Basename(original_name)) \o TopSuffix

BottomNameOf(original_name) == SplitextRoot(Basename(original_name)) \o BottomSuffix

\* upload_to_tmpfiles without the check of the HTTP status
UploadToTmpfilesAnyStatus(reply) ==
    IF ~reply.raises /\ reply.json_status = "success" /\ reply.url # <<>>
    THEN <<TRUE, NormalizeUploadUrl(reply.url)>>
    ELSE <<FALSE, <<>>>>

\* upload_to_tmpfiles (lines 75-90) on the reply of the hosting service:
\* <<TRUE, url>> when it returns, <<FALSE, <<>>>> when it raises
UploadToTmpfiles(reply) ==
    IF reply.raises THEN <<FALSE, <<>>>>
    ELSE IF reply.status_code = 200 /\ reply.json_status = "success" /\ reply.url # <<>>
         THEN <<TRUE, NormalizeUploadUrl(reply.url)>>
         ELSE <<FALSE, <<>>>>

\* line 111: the first candidate that is there, <<>> when there is none
SelectCandidate(result) ==
    IF result.perspective_corrected # <<>> THEN result.perspective_corrected
    ELSE IF result.cropped_table # <<>> THEN result.cropped_table
    ELSE result.original

\* ------------------------------------------------------------------ inputs
\* A generated image: every row differs from its neighbours.
MakeImage(mode, w, h, seed) ==
    [mode |-> mode, w |-> w, h |-> h,
     px |-> [y \in 1..h |-> [x \in 1..w |->
                LET v == (seed + 3 * y + x) % 7
                IN  IF mode = "L" THEN <<v>>
                    ELSE IF mode = "RGBA" THEN <<v, y, x, 1>>
                    ELSE <<v, y, x>>]]]

NoImage == [mode |-> "", w |-> 0, h |-> 0, px |-> <<>>]

EmptyBody == [kind |-> "empty", img |-> NoImage]
GarbageBody == [kind |-> "garbage", img |-> NoImage]
ImageBody(img) == [kind |-> "image", img |-> img]

CtImagePng == ImageSlash \o ExtPng
CtImageJpegUpper == <<"I", "M", "A", "G", "E", "/", "J", "P", "E", "G">>
CtImageTiffMixed == ImageSlash \o <<"T", "i", "f", "F">>
CtImageBmp == ImageSlash \o ExtBmp
CtImageJpg == ImageSlash \o ExtJpg
CtImageGif == ImageSlash \o <<"g", "i", "f">>
CtTextPlain == <<"t", "e", "x", "t", "/", "p", "l", "a", "i", "n">>
CtPngx == ImageSlash \o <<"p", "n", "g", "x">>

NameA == <<"a">> \o DotPng
NameB == <<"b", ".", "j", "p", "g">>
NameTar == <<"x", ".", "t", "a", "r", ".", "g", "z">>
NameDot == DotPng
NameDir == <<"d", "/", "c">> \o DotPng

UrlTmp == HttpScheme \o TmpfilesHost \o <<"1", "/", "u">> \o DotPng
UrlQuery == HttpsScheme \o <<"h", ".", "i", "o", "/", "v">> \o DotPng \o <<"?", "x", "=", "1">>
UrlBare == HttpsScheme \o <<"h", ".", "i", "o", "/">>

PubUrlHttp == HttpScheme \o TmpfilesHost \o <<"7", "/", "o">> \o DotPng
PubUrlDl == HttpsScheme \o TmpfilesDl \o <<"8", "/", "o">> \o DotPng

\* content types, filenames, bodies and URLs of the requests
ContentTypes ==
    {<<>>, CtImagePng, CtImageJpegUpper, CtImageTiffMixed, CtImageBmp, CtImageJpg,
     CtImageGif, CtTextPlain, CtPngx}

Filenames == {<<>>, NameA, NameB, NameTar, NameDot, NameDir}

Bodies ==
    {EmptyBody, GarbageBody, ImageBody(MakeImage("L", 2, 3, 0)), ImageBody(MakeImage("RGB", 1, 1, 1))}

ImageUrls == {UrlTmp, UrlQuery, UrlBare}

NoRequest ==
    [kind |-> "none", has_image |-> FALSE, content_type |-> <<>>, filename |-> <<>>,
     body |-> EmptyBody, image_url |-> <<>>]

PreviewRequests(cts, names, bodies) ==
    {[kind |-> "preview", has_image |-> TRUE, content_type |-> ct, filename |-> fn,
      body |-> b, image_url |-> <<>>] : ct \in cts, fn \in names, b \in bodies}

SplitUploads(cts, names, bodies, urls) ==
    {[kind |-> "split", has_image |-> TRUE, content_type |-> ct, filename |-> fn,
      body |-> b, image_url |-> u] : ct \in cts, fn \in names, b \in bodies, u \in urls}

SplitUrls(urls) ==
    {[kind |-> "split", has_image |-> FALSE, content_type |-> <<>>, filename |-> <<>>,
      body |-> EmptyBody, image_url |-> u] : u \in urls}

\* every request a client can send
AllRequests ==
    PreviewRequests(ContentTypes, Filenames, Bodies)
    \cup SplitUploads(ContentTypes, Filenames, Bodies, {<<>>, UrlTmp})
    \cup SplitUrls({<<>>} \cup ImageUrls)

\* the requests of the concurrent runs: well-formed uploads and URLs
ConcurrentRequests ==
    PreviewRequests({CtImagePng}, {<<>>, NameA, NameB}, {ImageBody(MakeImage("RGB", 1, 2, 0))})
    \cup SplitUploads({CtImagePng}, {NameTar}, {ImageBody(MakeImage("RGB", 1, 2, 0))}, {<<>>})
    \cup SplitUrls({UrlTmp, UrlQuery})

\* ------------------------------------------------------------------- state
VARIABLES
    req,        \* the request each handler invocation was called with
    pc,         \* where each invocation stands
    loc,        \* the local variables of each invocation
    resp,       \* the response of each invocation, status 0 while there is none
    log,        \* the stages each invocation ran and the calls it made, in order
    last_name,  \* _process_with_cropper._last_name, <<>> while the attribute is not set
    running,    \* the invocation the event loop is running, 0 when it runs none
    faults,     \* how much can go wrong outside: "every" failure, or "some"
    frame       \* a call of one helper on its own: the helper, its argument, its result

vars == <<req, pc, loc, resp, log, last_name, running, faults, frame>>

Reqs == 1..NReq

\* what AdvancedTableCropper.process_image can do: raise, or return the
\* candidate images (an absent candidate is <<>>)
NoCandidates == [perspective_corrected |-> <<>>, cropped_table |-> <<>>, original |-> <<>>]

Candidates(pc_img, ct_img, orig_img) ==
    [raises |-> FALSE,
     result |-> [perspective_corrected |-> pc_img, cropped_table |-> ct_img, original |-> orig_img]]

CollaboratorOutcomes ==
    {[raises |-> TRUE, result |-> NoCandidates],
     Candidates(<<>>, <<>>, <<MakeImage("RGB", 4, 9, 0)>>)}
    \cup
    IF faults = "every"
    THEN {Candidates(<<>>, <<>>, <<>>),
          Candidates(<<>>, <<MakeImage("L", 3, 3, 1)>>, <<MakeImage("RGB", 4, 9, 0)>>),
          Candidates(<<MakeImage("RGBA", 1, 1, 2)>>, <<MakeImage("L", 3, 3, 1)>>,
                     <<MakeImage("RGB", 4, 9, 0)>>)}
    ELSE {}

\* what requests.get can do: raise, or return a status and a body
FetchOutcomes ==
    {[raises |-> FALSE, status_code |-> 404, content |-> GarbageBody],
     [raises |-> FALSE, status_code |-> 200, content |-> ImageBody(MakeImage("L", 2, 3, 0))]}
    \cup
    IF faults = "every"
    THEN {[raises |-> TRUE, status_code |-> 0, content |-> EmptyBody]}
         \cup {[raises |-> FALSE, status_code |-> 200, content |-> b] : b \in Bodies}
    ELSE {}

\* what requests.post can do: raise, or return a status and a JSON body
NoReply == [raises |-> FALSE, status_code |-> 0, json_status |-> "", url |-> <<>>]

PublishOutcomes ==
    {[raises |-> FALSE, status_code |-> 500, json_status |-> "success", url |-> PubUrlHttp],
     [raises |-> FALSE, status_code |-> 200, json_status |-> "success", url |-> PubUrlHttp]}
    \cup
    IF faults = "every"
    THEN {[raises |-> TRUE, status_code |-> 0, json_status |-> "", url |-> <<>>],
          [raises |-> FALSE, status_code |-> 200, json_status |-> "error", url |-> <<>>],
          [raises |-> FALSE, status_code |-> 200, json_status |-> "success", url |-> <<>>],
          [raises |-> FALSE, status_code |-> 200, json_status |-> "success", url |-> PubUrlDl]}
    ELSE {}

\* whether saving the image as PNG can raise: Pillow refuses an image with
\* no pixels in some versions and writes it in others
EncodeMayRaise(img) == img.w = 0 \/ img.h = 0

\* the preview's file name taken from the shared _last_name instead
PreviewFilenameFromHint(filename) ==
    SplitextRoot(Basename(OrElse(last_name, Uploaded))) \o PreviewSuffix

\* lines 124-125
PreviewFilename(filename) ==
    SplitextRoot(Basename(OrElse(filename, Uploaded))) \o PreviewSuffix

NoLocals ==
    [file_bytes |-> EmptyBody, original_name |-> <<>>, result |-> NoCandidates,
     out_img |-> <<>>, halves |-> <<>>, png |-> <<>>, names |-> <<>>, urls |-> <<>>]

NoResponse == [status |-> 0, detail |-> "", files |-> <<>>]

NoFrame == [op |-> "none", arg |-> <<>>, out |-> <<>>, returned |-> FALSE]

\* a stage that ran: its name, the file name or URL it was given, whether
\* what it called raised or failed, and for a publish the reply it got
Event(ev, name, failed, reply) == [ev |-> ev, name |-> name, failed |-> failed, reply |-> reply]

\* the handler returns or raises, with every exception rewrapped into a 500
RespondRewrapped(r, status, detail, files) ==
    /\ resp' = [resp EXCEPT ![r] = [status |-> IF status = 200 THEN 200 ELSE 500,
                                    detail |-> detail, files |-> files]]
    /\ pc' = [pc EXCEPT ![r] = "done"]
    /\ running' = 0

\* the handler returns or raises (lines 127-132, 198-207): one response, and
\* the event loop is free
Respond(r, status, detail, files) ==
    /\ resp' = [resp EXCEPT ![r] = [status |-> status, detail |-> detail, files |-> files]]
    /\ pc' = [pc EXCEPT ![r] = "done"]
    /\ running' = 0

StartHandlers(requests, n) ==
    /\ \E sent \in [1..n -> requests] :
          req = [r \in Reqs |-> IF r <= n THEN sent[r] ELSE NoRequest]
    /\ pc = [r \in Reqs |-> IF r > n THEN "absent" ELSE "start"]
    /\ loc = [r \in Reqs |-> NoLocals]
    /\ resp = [r \in Reqs |-> NoResponse]
    /\ log = [r \in Reqs |-> <<>>]
    /\ last_name = <<>>
    /\ running = 0

\* ------------------------------------------ crop_and_perspective_correction
\* lines 100-104: validation, the _last_name attribute, and the await of the body
PreviewStart(r) ==
    /\ pc[r] = "start" /\ req[r].kind = "preview" /\ running = 0
    /\ IF ~ValidateImageContentType(req[r].content_type)
       THEN /\ Respond(r, 400, "Unsupported file type", <<>>)
            /\ UNCHANGED last_name
       ELSE /\ last_name' = OrElse(req[r].filename, UploadedPng)
            /\ pc' = [pc EXCEPT ![r] = "read"]
            /\ UNCHANGED <<resp, running>>
    /\ UNCHANGED <<req, loc, log, faults, frame>>

\* lines 104-106: the body is there, the invocation resumes
PreviewRead(r) ==
    /\ pc[r] = "read" /\ req[r].kind = "preview" /\ running = 0
    /\ log' = [log EXCEPT ![r] = Append(@, Event("read", <<>>, FALSE, NoReply))]
    /\ IF req[r].body.kind = "empty"
       THEN /\ Respond(r, 400, "Empty file uploaded", <<>>)
            /\ UNCHANGED loc
       ELSE /\ loc' = [loc EXCEPT ![r].file_bytes = req[r].body]
            /\ pc' = [pc EXCEPT ![r] = "cropper"]
            /\ running' = r
            /\ UNCHANGED resp
    /\ UNCHANGED <<req, last_name, faults, frame>>

\* _process_with_cropper (lines 59-70) as called on line 108: the temporary
\* file is named after _last_name; a name with a directory in it cannot be
\* opened in the fresh temporary directory
ProcessWithCropper(r) ==
    /\ pc[r] = "cropper" /\ running = r
    /\ LET original_name == OrElse(last_name, UploadedPng)
       IN  IF Contains(original_name, Slash)
           THEN /\ log' = [log EXCEPT ![r] = Append(@, Event("tempfile", original_name, TRUE, NoReply))]
                /\ Respond(r, 500, "Processing failed", <<>>)
                /\ UNCHANGED loc
           ELSE \E outcome \in CollaboratorOutcomes :
                  /\ log' = [log EXCEPT ![r] =
                                Append(@, Event("collab", original_name, outcome.raises, NoReply))]
                  /\ IF outcome.raises
                     THEN /\ Respond(r, 500, "Processing failed", <<>>)
                          /\ UNCHANGED loc
                     ELSE /\ loc' = [loc EXCEPT ![r].original_name = original_name,
                                                ![r].result = outcome.result]
                          /\ pc' = [pc EXCEPT ![r] = "trim"]
                          /\ UNCHANGED <<resp, running>>
    /\ UNCHANGED <<req, last_name, faults, frame>>

\* lines 111-121: the candidate; none is a 500; else the trim
PreviewTrim(r) ==
    /\ pc[r] = "trim" /\ running = r
    /\ LET out_img == SelectCandidate(loc[r].result)
       IN  IF out_img = <<>>
           THEN /\ Respond(r, 500, "Processing failed to produce an output image", <<>>)
                /\ UNCHANGED loc
           ELSE /\ loc' = [loc EXCEPT ![r].out_img =
                              <<Crop(out_img[1], TrimWindow(out_img[1].w, out_img[1].h))>>]
                /\ pc' = [pc EXCEPT ![r] = "encode"]
                /\ UNCHANGED <<resp, running>>
    /\ UNCHANGED <<req, log, last_name, faults, frame>>

\* lines 123-125
PreviewEncode(r) ==
    /\ pc[r] = "encode" /\ running = r
    /\ log' = [log EXCEPT ![r] = Append(@, Event("encode", <<>>, FALSE, NoReply))]
    /\ loc' = [loc EXCEPT ![r].png = <<PilToPngBytes(loc[r].out_img[1])>>,
                          ![r].names = <<PreviewFilename(req[r].filename)>>]
    /\ pc' = [pc EXCEPT ![r] = "publish"]
    /\ UNCHANGED <<req, resp, last_name, running, faults, frame>>

\* lines 126-132
PreviewPublish(r) ==
    /\ pc[r] = "publish" /\ running = r
    /\ \E reply \in PublishOutcomes :
         LET filename == loc[r].names[1]
             url == UploadToTmpfiles(reply)
         IN  /\ log' = [log EXCEPT ![r] = Append(@, Event("publish", filename, ~url[1], reply))]
             /\ IF url[1]
                THEN Respond(r, 200, "success", <<[filename |-> filename, url |-> url[2]]>>)
                ELSE Respond(r, 500, "Processing failed", <<>>)
    /\ UNCHANGED <<req, loc, last_name, faults, frame>>

\* ------------------------------------------------------ split_image_halves
\* lines 148-176: the source of the image
SplitStart(r) ==
    /\ pc[r] = "start" /\ req[r].kind = "split" /\ running = 0
    /\ IF req[r].has_image
       THEN /\ IF ~ValidateImageContentType(req[r].content_type)
               THEN Respond(r, 400, "Unsupported file type", <<>>)
               ELSE /\ pc' = [pc EXCEPT ![r] = "read"]
                    /\ UNCHANGED <<resp, running>>
            /\ UNCHANGED <<loc, log>>
       ELSE IF req[r].image_url # <<>>
       THEN \E fetched \in FetchOutcomes :
              LET url == NormalizeFetchUrl(req[r].image_url)
                  failed == fetched.raises \/ fetched.status_code # 200
              IN  /\ log' = [log EXCEPT ![r] = Append(@, Event("fetch", url, failed, NoReply))]
                  /\ IF fetched.raises
                     THEN /\ Respond(r, 400, "Failed to download image from URL", <<>>)
                          /\ UNCHANGED loc
                     ELSE IF fetched.status_code # 200
                     THEN /\ Respond(r, 400, "Failed to download image: HTTP", <<>>)
                          /\ UNCHANGED loc
                     ELSE /\ loc' = [loc EXCEPT ![r].file_bytes = fetched.content,
                                                ![r].original_name = NameFromUrl(url)]
                          /\ pc' = [pc EXCEPT ![r] = "decode"]
                          /\ running' = r
                          /\ UNCHANGED resp
       ELSE /\ Respond(r, 400, "Provide either 'image' file or 'image_url' form field", <<>>)
            /\ UNCHANGED <<loc, log>>
    /\ UNCHANGED <<req, last_name, faults, frame>>

\* lines 150-153: the body is there, the invocation resumes
SplitRead(r) ==
    /\ pc[r] = "read" /\ req[r].kind = "split" /\ running = 0
    /\ log' = [log EXCEPT ![r] = Append(@, Event("read", <<>>, FALSE, NoReply))]
    /\ IF req[r].body.kind = "empty"
       THEN /\ Respond(r, 400, "Empty file uploaded", <<>>)
            /\ UNCHANGED loc
       ELSE /\ loc' = [loc EXCEPT ![r].file_bytes = req[r].body,
                                  ![r].original_name = OrElse(req[r].filename, UploadedPng)]
            /\ pc' = [pc EXCEPT ![r] = "decode"]
            /\ running' = r
            /\ UNCHANGED resp
    /\ UNCHANGED <<req, last_name, faults, frame>>

\* lines 178-184: bytes that are no image raise in Image.open or convert
SplitDecode(r) ==
    /\ pc[r] = "decode" /\ running = r
    /\ LET raised == loc[r].file_bytes.kind # "image"
       IN  /\ log' = [log EXCEPT ![r] = Append(@, Event("decode", <<>>, raised, NoReply))]
           /\ IF raised
              THEN /\ Respond(r, 500, "Split failed", <<>>)
                   /\ UNCHANGED loc
              ELSE /\ loc' = [loc EXCEPT ![r].halves = Bisect(ConvertRGB(loc[r].file_bytes.img))]
                   /\ pc' = [pc EXCEPT ![r] = "encode_top"]
                   /\ UNCHANGED <<resp, running>>
    /\ UNCHANGED <<req, last_name, faults, frame>>

\* line 186
SplitEncodeTop(r) ==
    /\ pc[r] = "encode_top" /\ running = r
    /\ \E raised \in {FALSE} \cup {EncodeMayRaise(loc[r].halves[1])} :
         /\ log' = [log EXCEPT ![r] = Append(@, Event("encode", <<>>, raised, NoReply))]
         /\ IF raised
            THEN /\ Respond(r, 500, "Split failed", <<>>)
                 /\ UNCHANGED loc
            ELSE /\ loc' = [loc EXCEPT ![r].png = <<PilToPngBytes(loc[r].halves[1])>>]
                 /\ pc' = [pc EXCEPT ![r] = "encode_bottom"]
                 /\ UNCHANGED <<resp, running>>
    /\ UNCHANGED <<req, last_name, faults, frame>>

\* lines 187-193
SplitEncodeBottom(r) ==
    /\ pc[r] = "encode_bottom" /\ running = r
    /\ \E raised \in {FALSE} \cup {EncodeMayRaise(loc[r].halves[2])} :
         /\ log' = [log EXCEPT ![r] = Append(@, Event("encode", <<>>, raised, NoReply))]
         /\ IF raised
            THEN /\ Respond(r, 500, "Split failed", <<>>)
                 /\ UNCHANGED loc
            ELSE /\ loc' = [loc EXCEPT ![r].png = Append(@, PilToPngBytes(loc[r].halves[2])),
                                       ![r].names = <<TopNameOf(loc[r].original_name),
                                                      BottomNameOf(loc[r].original_name)>>]
                 /\ pc' = [pc EXCEPT ![r] = "publish_top"]
                 /\ UNCHANGED <<resp, running>>
    /\ UNCHANGED <<req, last_name, faults, frame>>

\* line 195, with a second attempt after a failure
SplitPublishTopRetry(r) ==
    /\ pc[r] = "publish_top" /\ running = r
    /\ \E reply \in PublishOutcomes :
         LET top_url == UploadToTmpfiles(reply)
         IN  /\ log' = [log EXCEPT ![r] = Append(@, Event("publish", loc[r].names[1], ~top_url[1], reply))]
             /\ IF top_url[1]
                THEN /\ loc' = [loc EXCEPT ![r].urls = <<top_url[2]>>]
                     /\ pc' = [pc EXCEPT ![r] = "publish_bottom"]
                     /\ UNCHANGED <<resp, running>>
                ELSE IF \A i \in 1..Len(log[r]) : log[r][i].ev # "publish"
                THEN UNCHANGED <<loc, pc, resp, running>>
                ELSE /\ Respond(r, 500, "Split failed", <<>>)
                     /\ UNCHANGED loc
    /\ UNCHANGED <<req, last_name, faults, frame>>

\* line 195
SplitPublishTop(r) ==
    /\ pc[r] = "publish_top" /\ running = r
    /\ \E reply \in PublishOutcomes :
         LET top_url == UploadToTmpfiles(reply)
         IN  /\ log' = [log EXCEPT ![r] = Append(@, Event("publish", loc[r].names[1], ~top_url[1], reply))]
             /\ IF top_url[1]
                THEN /\ loc' = [loc EXCEPT ![r].urls = <<top_url[2]>>]
                     /\ pc' = [pc EXCEPT ![r] = "publish_bottom"]
                     /\ UNCHANGED <<resp, running>>
                ELSE /\ Respond(r, 500, "Split failed", <<>>)
                     /\ UNCHANGED loc
    /\ UNCHANGED <<req, last_name, faults, frame>>

\* lines 196-207
SplitPublishBottom(r) ==
    /\ pc[r] = "publish_bottom" /\ running = r
    /\ \E reply \in PublishOutcomes :
         LET bottom_url == UploadToTmpfiles(reply)
         IN  /\ log' = [log EXCEPT ![r] =
                           Append(@, Event("publish", loc[r].names[2], ~bottom_url[1], reply))]
             /\ IF bottom_url[1]
                THEN Respond(r, 200, "success",
                             <<[filename |-> loc[r].names[1], url |-> loc[r].urls[1]],
                               [filename |-> loc[r].names[2], url |-> bottom_url[2]]>>)
                ELSE Respond(r, 500, "Split failed", <<>>)
    /\ UNCHANGED <<req, loc, last_name, faults, frame>>

Handle(r) ==
    \/ PreviewStart(r)
    \/ PreviewRead(r)
    \/ ProcessWithCropper(r)
    \/ PreviewTrim(r)
    \/ PreviewEncode(r)
    \/ PreviewPublish(r)
    \/ SplitStart(r)
    \/ SplitRead(r)
    \/ SplitDecode(r)
    \/ SplitEncodeTop(r)
    \/ SplitEncodeBottom(r)
    \/ SplitPublishTop(r)
    \/ SplitPublishBottom(r)

\* one request of any shape, and everything outside can fail in every way
Init == StartHandlers(AllRequests, 1) /\ faults = "every" /\ frame = NoFrame

Next == \E r \in Reqs : Handle(r)

Spec == Init /\ [][Next]_vars

\* NReq requests handled concurrently by the one event loop
InitConc == StartHandlers(ConcurrentRequests, NReq) /\ faults = "some" /\ frame = NoFrame

NextConc == \E r \in Reqs : Handle(r)

SpecConc == InitConc /\ [][NextConc]_vars

\* ------------------------------------------------ the helpers on their own
\* a URL of the hosting service: a scheme, tmpfiles.org, and a path
PathSegments == {<<"d", "l">>, <<"7">>, <<"o">> \o DotPng, <<"a", "b", "c", "1", "2", "3">>}

RECURSIVE JoinPath(_)
JoinPath(segs) ==
    IF Len(segs) = 1 THEN segs[1] ELSE segs[1] \o Slash \o JoinPath(Tail(segs))

PathOf(u) == JoinPath(u.segs) \o (IF u.trailing THEN Slash ELSE <<>>)

UrlOf(u) == u.scheme \o TmpfilesOrg \o Slash \o PathOf(u)

HostUrls ==
    {[scheme |-> sc, segs |-> segs, trailing |-> tr] :
        sc \in {HttpScheme, HttpsScheme},
        segs \in UNION {[1..n -> PathSegments] : n \in 1..MaxSegs},
        tr \in BOOLEAN}

TrimSizes ==
    {<<w, h>> : w \in (1..MaxW) \cup {100, 1000}, h \in (1..MaxH) \cup {800}}

DecodedImages ==
    {MakeImage(mode, w, h, seed) :
        mode \in {"RGB", "L", "RGBA"}, w \in 1..MaxSplitW, h \in 1..MaxSplitH, seed \in 0..1}

Call(op, arg) == [op |-> op, arg |-> arg, out |-> <<>>, returned |-> FALSE]

InitHelpers ==
    /\ StartHandlers({}, 0)
    /\ faults = "every"
    /\ \/ \E u \in HostUrls : frame = Call("upload_to_tmpfiles", u)
       \/ \E size \in TrimSizes : frame = Call("trim", size)
       \/ \E img \in DecodedImages : frame = Call("split", img)

Return(out) ==
    /\ frame' = [frame EXCEPT !.out = out, !.returned = TRUE]
    /\ UNCHANGED <<req, pc, loc, resp, log, last_name, running, faults>>

\* upload_to_tmpfiles when the service answers 200, "success" and the URL
CallUploadToTmpfiles ==
    /\ frame.op = "upload_to_tmpfiles" /\ ~frame.returned
    /\ Return(UploadToTmpfiles([raises |-> FALSE, status_code |-> 200,
                                json_status |-> "success", url |-> UrlOf(frame.arg)]))

\* lines 116-121 on an image of the given size
CallTrimWindow ==
    /\ frame.op = "trim" /\ ~frame.returned
    /\ Return(TrimWindow(frame.arg[1], frame.arg[2]))

\* lines 179-184 on a decoded image
CallBisect ==
    /\ frame.op = "split" /\ ~frame.returned
    /\ Return(Bisect(ConvertRGB(frame.arg)))

NextHelpers == CallUploadToTmpfiles \/ CallTrimWindow \/ CallBisect

SpecHelpers == InitHelpers /\ [][NextHelpers]_vars

\* =================================================================== claims

\* C2: the split of a decoded image of height H >= 1 at mid = floor(H/2):
\* the top half is exactly rows [0, mid) and the bottom half exactly rows
\* [mid, H); rows(top) = floor(H/2), rows(top) + rows(bottom) = H, the bottom
\* half has the extra row when H is odd, and top stacked over bottom is the
\* original (after the conversion to RGB), row for row.
C2_EqualSplit ==
    (frame.op = "split" /\ frame.returned) =>
        LET original == ConvertRGB(frame.arg)
            H == frame.arg.h
            top == frame.out[1]
            bottom == frame.out[2]
        IN  /\ top.h = H \div 2
            /\ Len(top.px) = H \div 2
            /\ Len(top.px) + Len(bottom.px) = H
            /\ top.h + bottom.h = H
            /\ top.w = frame.arg.w /\ bottom.w = frame.arg.w
            /\ \A y \in 1..H :
                 IF y <= H \div 2
                 THEN top.px[y] = original.px[y]
                 ELSE bottom.px[y - Len(top.px)] = original.px[y]
            /\ (H % 2 = 1) => Len(bottom.px) = Len(top.px) + 1
            /\ (H % 2 = 0) => Len(bottom.px) = Len(top.px)
            /\ top.px \o bottom.px = original.px

\* an image of odd height, not in RGB, has been split
C2_Witness ==
    /\ frame.op = "split" /\ frame.returned
    /\ frame.arg.h = 5 /\ frame.arg.mode = "L"
    /\ frame.out[1].h = 2 /\ frame.out[2].h = 3

\* C3: the preview trim of an image of width W >= 1 and height H >= 1 hands
\* crop the window (left, 0, max(left+1, W), max(1, H - bottom_trim)) with
\* left = floor(27*W/100) and bottom_trim = floor(12*H/100); its right edge
\* is W, 0 <= left < W and 1 <= bottom edge <= H; for 1000 x 800 it is
\* (270, 0, 1000, 704).
C3_TrimWindow ==
    (frame.op = "trim" /\ frame.returned) =>
        LET W == frame.arg[1]
            H == frame.arg[2]
            left == (27 * W) \div 100
            bottom_trim == (12 * H) \div 100
            box == frame.out
        IN  /\ box = <<left, 0, IF left + 1 > W THEN left + 1 ELSE W,
                       IF 1 > H - bottom_trim THEN 1 ELSE H - bottom_trim>>
            /\ box[3] = W
            /\ 0 <= box[1] /\ box[1] < W
            /\ 1 <= box[4] /\ box[4] <= H
            /\ (W = 1000 /\ H = 800) => box = <<270, 0, 1000, 704>>

\* the 1000 x 800 image has been trimmed
C3_Witness ==
    /\ frame.op = "trim" /\ frame.returned
    /\ frame.arg = <<1000, 800>> /\ frame.out[1] = 270 /\ frame.out[4] = 704

\* C4: the URL upload_to_tmpfiles hands back for a non-empty URL of the
\* hosting service (http or https, host tmpfiles.org): the scheme is https,
\* /dl/ is in it, inserted right after the host when it was absent, and a
\* URL that had /dl/ keeps its path; http://tmpfiles.org/abc123 becomes
\* https://tmpfiles.org/dl/abc123.
C4_HadDl(u) ==
    \E i \in 1..Len(u.segs) : u.segs[i] = <<"d", "l">> /\ (i < Len(u.segs) \/ u.trailing)

C4_UrlNormalized ==
    (frame.op = "upload_to_tmpfiles" /\ frame.returned) =>
        LET u == frame.arg
            url == frame.out[2]
        IN  /\ frame.out[1]
            /\ StartsWith(url, HttpsScheme)
            /\ Contains(url, DlSegment)
            /\ C4_HadDl(u) => url = HttpsScheme \o TmpfilesOrg \o Slash \o PathOf(u)
            /\ ~C4_HadDl(u) => url = HttpsScheme \o TmpfilesOrg \o DlSegment \o PathOf(u)

\* http://tmpfiles.org/abc123 has been normalised
C4_Witness ==
    /\ frame.op = "upload_to_tmpfiles" /\ frame.returned
    /\ frame.arg = [scheme |-> HttpScheme, segs |-> <<(<<"a", "b", "c", "1", "2", "3">>)>>,
                    trailing |-> FALSE]
    /\ frame.out[2] = HttpsScheme \o TmpfilesOrg \o DlSegment \o <<"a", "b", "c", "1", "2", "3">>

\* ------------------------------------------------ what the claims speak of
\* a reply of the hosting service that is a success: HTTP 200, JSON status
\* "success", and a URL
GoodReply(reply) ==
    ~reply.raises /\ reply.status_code = 200 /\ reply.json_status = "success" /\ reply.url # <<>>

IsPublish(e) == e.ev = "publish"

Publishes(r) == SelectSeq(log[r], IsPublish)

\* the declared types that end, lower-cased, with jpeg, jpg, png, bmp or tiff
AcceptedTypes == {CtImagePng, CtImageJpegUpper, CtImageTiffMixed, CtImageBmp, CtImageJpg}

RejectedTypes == {<<>>, CtImageGif, CtTextPlain, CtPngx}

\* the base name, extension removed, of a request's own file name or URL
OwnBase(q) ==
    IF q.has_image
    THEN CASE q.filename = <<>> -> Uploaded
           [] q.filename = NameA -> <<"a">>
           [] q.filename = NameB -> <<"b">>
           [] q.filename = NameTar -> <<"x", ".", "t", "a", "r">>
           [] q.filename = NameDot -> DotPng
           [] q.filename = NameDir -> <<"c">>
    ELSE CASE q.image_url = UrlTmp -> <<"u">>
           [] q.image_url = UrlQuery -> <<"v">>
           [] q.image_url = UrlBare -> <<"d", "o", "w", "n", "l", "o", "a", "d", "e", "d">>

\* C1: a split request with both an image file and a non-empty image_url,
\* or with neither, is rejected with HTTP 400, and no fetch, decode or
\* publish call is made for it.
C1_ExactlyOneSource ==
    \A r \in Reqs :
        (req[r].kind = "split" /\ (req[r].has_image <=> req[r].image_url # <<>>)) =>
            /\ pc[r] = "done" => resp[r].status = 400
            /\ \A i \in 1..Len(log[r]) : log[r][i].ev \notin {"fetch", "decode", "publish"}

\* C5: in a split request whose top half was published and whose bottom
\* half's publish failed, the response is HTTP 500 and carries no file; a
\* response carries files only when both publishes succeeded.
C5_NoPartialUrls ==
    \A r \in Reqs :
        req[r].kind = "split" =>
            LET pubs == Publishes(r)
            IN  /\ (Len(pubs) = 2 /\ GoodReply(pubs[1].reply) /\ ~GoodReply(pubs[2].reply)) =>
                      (pc[r] = "done" /\ resp[r].status = 500 /\ resp[r].files = <<>>)
                /\ (resp[r].files # <<>> \/ resp[r].status = 200) =>
                      /\ resp[r].status = 200 /\ Len(resp[r].files) = 2
                      /\ Len(pubs) = 2 /\ GoodReply(pubs[1].reply) /\ GoodReply(pubs[2].reply)

\* the top half was published, the bottom half's publish failed, and the
\* request ended with a 500
C5_Witness ==
    \E r \in Reqs :
        /\ req[r].kind = "split" /\ pc[r] = "done" /\ resp[r].status = 500
        /\ Len(Publishes(r)) = 2
        /\ GoodReply(Publishes(r)[1].reply) /\ ~GoodReply(Publishes(r)[2].reply)

\* C6: a request that ended has one response: 400 when validation (content
\* type, empty body, missing source) or the download failed, 500 when a
\* later stage failed (temporary file and collaborator, candidate selection,
\* decoding, encoding, publishing), 200 "success" when nothing failed.
C6_ValidationFails(q) ==
    \/ q.has_image /\ q.content_type \in RejectedTypes
    \/ q.has_image /\ q.content_type \in AcceptedTypes /\ q.body.kind = "empty"
    \/ q.kind = "split" /\ ~q.has_image /\ q.image_url = <<>>

C6_DownloadFails(r) == \E i \in 1..Len(log[r]) : log[r][i].ev = "fetch" /\ log[r][i].failed

C6_LaterStageFails(r) ==
    \/ \E i \in 1..Len(log[r]) :
         \/ log[r][i].ev \in {"tempfile", "collab", "decode", "encode"} /\ log[r][i].failed
         \/ log[r][i].ev = "publish" /\ ~GoodReply(log[r][i].reply)
    \/ /\ \E i \in 1..Len(log[r]) : log[r][i].ev = "collab" /\ ~log[r][i].failed
       /\ loc[r].result = NoCandidates

C6_StatusMapping ==
    \A r \in Reqs :
        /\ (pc[r] = "done") <=> (resp[r].status # 0)
        /\ pc[r] = "done" =>
             LET early == C6_ValidationFails(req[r]) \/ C6_DownloadFails(r)
                 late == C6_LaterStageFails(r)
             IN  /\ resp[r].status \in {200, 400, 500}
                 /\ (resp[r].status = 400) <=> early
                 /\ (resp[r].status = 500) <=> (~early /\ late)
                 /\ (resp[r].status = 200) <=> (~early /\ ~late)
                 /\ (resp[r].status = 200) => resp[r].detail = "success"

\* a download that failed ended in a 400
C6_Witness ==
    \E r \in Reqs : pc[r] = "done" /\ resp[r].status = 400 /\ C6_DownloadFails(r)

\* C7: an uploaded file whose declared type is not supported is rejected
\* with HTTP 400 before the body is read and before any collaborator,
\* decode or publish call; a supported type, in any letter case, passes
\* validation, and the body is read next.
C7_ValidationFirst ==
    \A r \in Reqs :
        req[r].has_image =>
            /\ req[r].content_type \in RejectedTypes =>
                 /\ log[r] = <<>>
                 /\ pc[r] \in {"start", "done"}
                 /\ pc[r] = "done" =>
                      (resp[r].status = 400 /\ resp[r].detail = "Unsupported file type")
            /\ req[r].content_type \in AcceptedTypes =>
                 /\ resp[r].detail # "Unsupported file type"
                 /\ pc[r] \notin {"start", "read"} => (log[r] # <<>> /\ log[r][1].ev = "read")

\* an upload declared image/pngx was rejected
C7_Witness ==
    \E r \in Reqs :
        /\ req[r].has_image /\ req[r].content_type = CtPngx
        /\ pc[r] = "done" /\ resp[r].status = 400 /\ log[r] = <<>>

\* C8: the file name under which a preview request's bytes go to the
\* collaborator is the request's own upload file name (uploaded.png when it
\* has none), under every interleaving of concurrent requests.
C8_OwnNameToCollaborator ==
    \A r \in Reqs :
        \A i \in 1..Len(log[r]) :
            log[r][i].ev \in {"tempfile", "collab"} =>
                log[r][i].name = (IF req[r].filename # <<>> THEN req[r].filename ELSE UploadedPng)

\* C9: a successful response names its files <base>_preview.png, or
\* <base>_top_half.png and <base>_bottom_half.png, with <base> the base name
\* of the request's own file name or URL; they are the names given to the
\* publish calls, whatever _last_name holds.
C9_OwnFilenames ==
    \A r \in Reqs :
        LET pubs == Publishes(r)
            base == OwnBase(req[r])
        IN  /\ \A i \in 1..Len(pubs) :
                 pubs[i].name = base \o (IF req[r].kind = "preview" THEN PreviewSuffix
                                         ELSE IF i = 1 THEN TopSuffix ELSE BottomSuffix)
            /\ resp[r].status = 200 =>
                 /\ Len(resp[r].files) = Len(pubs)
                 /\ \A i \in 1..Len(pubs) : resp[r].files[i].filename = pubs[i].name
                 /\ req[r].kind = "preview" =>
                      (Len(pubs) = 1 /\ resp[r].files[1].filename = base \o PreviewSuffix)
                 /\ req[r].kind = "split" =>
                      /\ Len(pubs) = 2
                      /\ resp[r].files[1].filename = base \o TopSuffix
                      /\ resp[r].files[2].filename = base \o BottomSuffix

\* a preview succeeded although the collaborator got another request's name
C9_Witness ==
    \E r \in Reqs :
        /\ req[r].kind = "preview" /\ req[r].filename = NameA
        /\ resp[r].status = 200
        /\ \E i \in 1..Len(log[r]) : log[r][i].ev = "collab" /\ log[r][i].name = NameB
        /\ resp[r].files[1].filename = <<"a">> \o PreviewSuffix

\* C10: at most one publish call in a preview and two in a split, one fetch
\* and one collaborator call at most; in a split both halves are encoded
\* before the first publish and the bottom half is published only after the
\* top half's publish succeeded; a stage that failed is the last one.
C10_Failed(e) == IF e.ev = "publish" THEN ~GoodReply(e.reply) ELSE e.failed

C10_Count(r, ev) == Cardinality({i \in 1..Len(log[r]) : log[r][i].ev = ev})

C10_NoRetryFixedOrder ==
    \A r \in Reqs :
        /\ C10_Count(r, "publish") <= (IF req[r].kind = "preview" THEN 1 ELSE 2)
        /\ C10_Count(r, "fetch") <= 1
        /\ C10_Count(r, "collab") <= 1
        /\ \A i \in 1..Len(log[r]) :
             /\ (req[r].kind = "split" /\ log[r][i].ev = "publish") =>
                   Cardinality({j \in 1..(i - 1) : log[r][j].ev = "encode"}) = 2
             /\ \A j \in (i + 1)..Len(log[r]) :
                   (log[r][i].ev = "publish" /\ log[r][j].ev = "publish") =>
                       GoodReply(log[r][i].reply)
             /\ C10_Failed(log[r][i]) => (i = Len(log[r]) /\ pc[r] = "done")
        /\ (req[r].has_image /\ req[r].body.kind = "empty") => Len(log[r]) <= 1
        /\ (req[r].kind = "preview" /\ C10_Count(r, "publish") > 0) => loc[r].result # NoCandidates

\* a split whose top half's publish failed ended after that one publish call
C10_Witness ==
    \E r \in Reqs :
        /\ req[r].kind = "split" /\ pc[r] = "done"
        /\ Len(Publishes(r)) = 1 /\ ~GoodReply(Publishes(r)[1].reply)

====
